---- MODULE Spec2Model ----
(***************************************************************************)
(* A model of filedup.py: the duplicate finder FileDup.run, its directory  *)
(* walk, the size scan, the chunked md5 hashing with progress accounting,  *)
(* the grouping and the report, plus the KeyboardInterrupt handler of main.*)
(***************************************************************************)
EXTENDS Integers, Sequences, FiniteSets, TLC

\* ------------------------------------------------------------------ bounds
MaxRoots == 2          \* longest list of root paths given on the command line
MaxChunks == 1         \* largest file holds MaxChunks full chunks plus one byte
MaxFaults == 2         \* getsize/open/read failures the environment injects

\* ------------------------------------------------------- program constants
CHUNK == 4096          \* f.read(4096)
SYM_LEN == 40          \* Progressbar sym_len default

\* ------------------------------------------------------------- file system
\* A path is the sequence of its components; os.path.join appends one.
D == <<"d">>
A == <<"d", "a.txt">>
S == <<"d", "s">>
B == <<"d", "b.txt">>
C == <<"d", "s", "c.bin">>
P == <<"d", "s", "p">>

Dirs == {D, S}
Files == {A, B, C}
Roots == {D, S, A}

\* what os.path.isfile / islink / isdir see: b.txt is a symlink to a regular
\* file, p is a fifo (neither file, link nor directory)
Kind(path) ==
    CASE path \in Dirs -> "dir"
      [] path \in {A, C} -> "file"
      [] path = B -> "link"
      [] OTHER -> "other"

\* os.listdir of a readable directory
Listing(path) ==
    CASE path = D -> <<"a.txt", "s", "b.txt">>
      [] path = S -> <<"c.bin", "p">>
      [] OTHER -> << >>

ExtOf(name) ==
    CASE name \in {"a.txt", "b.txt"} -> "txt"
      [] name = "c.bin" -> "bin"
      [] OTHER -> ""

\* file contents: size bytes, all "z" except the last one
FileSizes == {c * CHUNK : c \in 0..MaxChunks} \cup {MaxChunks * CHUNK + 1}
Contents ==
    {[size |-> 0, last |-> ""]} \cup
    [size : FileSizes \ {0}, last : {"x", "y"}]

RECURSIVE SeqsUpTo(_, _)
SeqsUpTo(S0, n) ==
    IF n = 0 THEN {<< >>}
    ELSE LET shorter == SeqsUpTo(S0, n - 1)
         IN  shorter \cup {Append(s, x) : s \in shorter, x \in S0}

RootLists == SeqsUpTo(Roots, MaxRoots) \ {<< >>}

Range(s) == {s[i] : i \in 1..Len(s)}
Last(s) == s[Len(s)]

RECURSIVE Flatten(_)
Flatten(ss) == IF ss = << >> THEN << >> ELSE Head(ss) \o Flatten(Tail(ss))

RECURSIVE SumSeq(_)
SumSeq(s) == IF s = << >> THEN 0 ELSE Head(s) + SumSeq(Tail(s))

Min(a, b) == IF a < b THEN a ELSE b

\* ------------------------------------------------------------------- state
VARIABLES
    paths,            \* FileDup.paths
    filters,          \* FileDup.filters: extensions of ExtensionFilter objects
    progress,         \* FileDup.progress
    unreadable,       \* directories whose os.listdir raises OSError
    content,          \* the bytes of every file
    flaky,            \* files whose getsize, open or read may raise OSError
    pc,               \* position of the run
    exc,              \* the uncaught exception that ended the run, if any
    args,             \* run's arguments script and print_hash
    todo,             \* pending _find_files_in_path calls, innermost first
    files,            \* FileDup.files
    idx,              \* position of the size loop in files
    files_by_size,    \* FileDup.files_by_size (insertion ordered dict)
    dups_sizes,       \* local dups_sizes of run
    progressbar,      \* FileDup.progressbar
    si, fi,           \* position of the hash loops: size class, file in class
    sub,              \* inside _hash: before open, or reading
    md5,              \* running digest of _hash
    fpos,             \* read offset of the open file
    hash_count_left,  \* FileDup._hash_count_left
    potential_dup,    \* FileDup.potential_dup
    dup,              \* FileDup.dup
    oi,               \* position of the report loop in dup
    stderr,           \* paths of the errors printed to sys.stderr
    stdout,           \* lines printed to sys.stdout, progress bar excluded
    io,               \* file system calls made so far
    faults            \* failures injected so far

static == <<paths, filters, progress, unreadable, content, flaky>>
walk == <<todo, files>>
sizing == <<idx, files_by_size>>
hashing == <<dups_sizes, si, fi, sub, md5, fpos, hash_count_left, potential_dup>>
report == <<dup, oi, stdout, args>>
vars == <<static, pc, exc, walk, sizing, hashing, report, progressbar,
          stderr, io, faults>>


\* -------------------------------------------------- dicts, insertion ordered
\* A dict is the sequence of its <<key, value>> items in insertion order.
DictHas(d, k) == \E i \in 1..Len(d) : d[i][1] = k

DictGet(d, k) == d[CHOOSE i \in 1..Len(d) : d[i][1] = k][2]

\* defaultdict(list): d[k].append(v)
DictAppend(d, k, v) ==
    IF DictHas(d, k)
    THEN [i \in 1..Len(d) |->
            IF d[i][1] = k THEN <<k, Append(d[i][2], v)>> ELSE d[i]]
    ELSE Append(d, <<k, <<v>>>>)

DictKeys(d) == [i \in 1..Len(d) |-> d[i][1]]
DictValues(d) == [i \in 1..Len(d) |-> d[i][2]]

\* ------------------------------------------------------------- Progressbar
NoBar == [prefix |-> "None", pos |-> 0, max |-> 0, n_sym |-> 0, per_mile |-> 0]

\* Progressbar.__init__
NewBar(prefix, max_val) ==
    [prefix |-> prefix, pos |-> 0, max |-> max_val, n_sym |-> 0, per_mile |-> 0]

\* BarAdd with the increment added to _max as well as to _pos
BarAddGrow(bar, inc) ==
    [bar EXCEPT !.pos = bar.pos + inc, !.max = bar.max + inc]

\* Progressbar.add, its division by _max raising ZeroDivisionError after
\* _pos has been advanced
AddRaises(bar) == bar.max = 0

BarAdd(bar, inc) ==
    LET pos == bar.pos + inc
    IN  IF AddRaises(bar)
        THEN [bar EXCEPT !.pos = pos]
        ELSE [bar EXCEPT !.pos = pos,
                         !.n_sym = (SYM_LEN * pos) \div bar.max,
                         !.per_mile = (pos * 1000) \div bar.max]

\* FileDup._prb_add
PrbRaises == progress /\ AddRaises(progressbar)
PrbAdd(inc) == IF progress THEN BarAdd(progressbar, inc) ELSE progressbar

\* ------------------------------------------------------------------ filters
\* ExtensionFilter.check: path.endswith('.' + ext)
ExtCheck(ext, path) == ExtOf(Last(path)) = ext

\* FileDup._check_file_filters
CheckFileFilters(path) == \A i \in 1..Len(filters) : ExtCheck(filters[i], path)

\* --------------------------------------------------------------------- md5
\* The digest state stands for the byte string fed so far: its length and
\* its last byte determine it, every other byte of a file being "z".
Md5Init == [n |-> 0, last |-> ""]

\* the bytes f.read(4096) returns at offset pos of file
ChunkLen(file, pos) == Min(CHUNK, content[file].size - pos)
ChunkLast(file, pos) ==
    IF pos + ChunkLen(file, pos) = content[file].size
    THEN content[file].last ELSE "z"

\* Md5Update fed the chunk's length only
Md5UpdateLenOnly(st, ln, last) == [n |-> st.n + ln, last |-> ""]

Md5Update(st, ln, last) == [n |-> st.n + ln, last |-> last]

\* md5.hexdigest(), assumed free of collisions
HexDigest(st) == <<"md5", st.n, st.last>>

\* os.path.getsize
GetSize(file) == content[file].size

\* ---------------------------------------------------------- run's helpers
\* DupsSizes without the test on the class length
DupsSizesAll(fbs) == DictKeys(fbs)

\* dups_sizes of run: sizes whose class holds more than one file
DupsSizes(fbs) ==
    DictKeys(SelectSeq(fbs, LAMBDA item : Len(item[2]) > 1))

\* the total of the 'Finding duplicates' bar
HashTotal(fbs, sizes) ==
    SumSeq([i \in 1..Len(sizes) |-> sizes[i] * Len(DictGet(fbs, sizes[i]))])

\* IsDup keeping groups of one
IsDupAny(item) == Len(item[2]) > 0

\* the lambda filtering potential_dup into dup
IsDup(item) == Len(item[2]) > 1

CurSize == dups_sizes[si]
CurFile == DictGet(files_by_size, CurSize)[fi]

NoArgs == [script |-> FALSE, print_hash |-> FALSE, given |-> FALSE]

\* -------------------------------------------------------------------- Init
InitRun ==
    /\ pc = "init"
    /\ exc = "None"
    /\ args = NoArgs
    /\ todo = << >>
    /\ files = << >>
    /\ idx = 1
    /\ files_by_size = << >>
    /\ dups_sizes = << >>
    /\ progressbar = NoBar
    /\ si = 1 /\ fi = 1
    /\ sub = "open"
    /\ md5 = Md5Init
    /\ fpos = 0
    /\ hash_count_left = 0
    /\ potential_dup = << >>
    /\ dup = << >>
    /\ oi = 1
    /\ stderr = << >>
    /\ stdout = << >>
    /\ io = << >>
    /\ faults = 0

\* trees, root lists and filters of every shape over small files, none prone to
\* errors
InitWalk ==
    /\ paths \in RootLists
    /\ filters \in {<< >>, <<"txt">>}
    /\ progress \in BOOLEAN
    /\ unreadable \in SUBSET Dirs
    /\ content \in [Files -> {c \in Contents : c.size = 0 \/ (c.size = CHUNK /\ c.last = "x")}]
    /\ flaky = {}

\* one root, files of every content, all prone to errors
InitHash ==
    /\ paths = <<D>>
    /\ filters = << >>
    /\ progress \in BOOLEAN
    /\ unreadable \in SUBSET {S}
    /\ content \in [Files -> Contents]
    /\ flaky = Files

\* a.txt, prone to errors, reached from two roots
InitTwice ==
    /\ paths \in {<<A, A>>, <<D, A>>} \cap RootLists
    /\ filters = << >>
    /\ progress \in BOOLEAN
    /\ unreadable = {}
    /\ content \in {f \in [Files -> Contents] : f[B] = f[C] /\ f[B].size = 0}
    /\ flaky = {A}

Init == (InitWalk \/ InitHash \/ InitTwice) /\ InitRun

\* ------------------------------------------------------------------ actions
\* run, lines 155-157, and the first iteration of the loop over self.paths
RunBegin ==
    /\ pc = "init"
    /\ pc' = "discover"
    /\ todo' = paths
    /\ files' = << >>
    /\ files_by_size' = << >>
    /\ potential_dup' = << >>
    /\ UNCHANGED <<static, exc, idx, dups_sizes, si, fi, sub, md5, fpos,
                   hash_count_left, report, progressbar, stderr, io, faults>>

\* _find_files_in_path on a regular file or a symlink
WalkFile ==
    /\ pc = "discover" /\ todo # << >>
    /\ Kind(Head(todo)) \in {"file", "link"}
    /\ files' = IF CheckFileFilters(Head(todo))
                THEN Append(files, Head(todo)) ELSE files
    /\ todo' = Tail(todo)
    /\ UNCHANGED <<static, pc, exc, sizing, hashing, report, progressbar,
                   stderr, io, faults>>

\* _find_files_in_path on a directory: the calls for its entries come first
WalkDir ==
    /\ pc = "discover" /\ todo # << >>
    /\ Kind(Head(todo)) = "dir"
    /\ Head(todo) \notin unreadable
    /\ LET ls == Listing(Head(todo))
       IN  todo' = [i \in 1..Len(ls) |-> Append(Head(todo), ls[i])] \o Tail(todo)
    /\ io' = Append(io, <<"listdir", Head(todo)>>)
    /\ UNCHANGED <<static, pc, exc, files, sizing, hashing, report,
                   progressbar, stderr, faults>>

\* WalkDirFail with the error ending the whole walk
WalkDirFailAbort ==
    /\ pc = "discover" /\ todo # << >>
    /\ Kind(Head(todo)) = "dir"
    /\ Head(todo) \in unreadable
    /\ stderr' = Append(stderr, Head(todo))
    /\ todo' = << >>
    /\ io' = Append(io, <<"listdir", Head(todo)>>)
    /\ UNCHANGED <<static, pc, exc, files, sizing, hashing, report,
                   progressbar, faults>>

\* os.listdir raises OSError: printed, the caller's loop goes on
WalkDirFail ==
    /\ pc = "discover" /\ todo # << >>
    /\ Kind(Head(todo)) = "dir"
    /\ Head(todo) \in unreadable
    /\ stderr' = Append(stderr, Head(todo))
    /\ todo' = Tail(todo)
    /\ io' = Append(io, <<"listdir", Head(todo)>>)
    /\ UNCHANGED <<static, pc, exc, files, sizing, hashing, report,
                   progressbar, faults>>

\* neither file, link nor directory: nothing happens
WalkOther ==
    /\ pc = "discover" /\ todo # << >>
    /\ Kind(Head(todo)) = "other"
    /\ todo' = Tail(todo)
    /\ UNCHANGED <<static, pc, exc, files, sizing, hashing, report,
                   progressbar, stderr, io, faults>>

\* run, lines 164-168: the 'Getting file sizes' bar
StartSizes ==
    /\ pc = "discover" /\ todo = << >>
    /\ pc' = "sizes"
    /\ progressbar' = IF progress
                      THEN NewBar("Getting file sizes", Len(files))
                      ELSE progressbar
    /\ idx' = 1
    /\ UNCHANGED <<static, exc, walk, files_by_size, hashing, report,
                   stderr, io, faults>>

\* one iteration of the size loop, os.path.getsize succeeding
SizeOk ==
    /\ pc = "sizes" /\ idx <= Len(files)
    /\ files_by_size' = DictAppend(files_by_size, GetSize(files[idx]), files[idx])
    /\ io' = Append(io, <<"getsize", files[idx]>>)
    /\ progressbar' = PrbAdd(1)
    /\ IF PrbRaises
       THEN pc' = "crashed" /\ exc' = "ZeroDivisionError" /\ UNCHANGED idx
       ELSE idx' = idx + 1 /\ UNCHANGED <<pc, exc>>
    /\ UNCHANGED <<static, walk, hashing, report, stderr, faults>>

\* one iteration of the size loop, os.path.getsize raising OSError
SizeFail ==
    /\ pc = "sizes" /\ idx <= Len(files)
    /\ files[idx] \in flaky
    /\ faults < MaxFaults
    /\ faults' = faults + 1
    /\ stderr' = Append(stderr, files[idx])
    /\ io' = Append(io, <<"getsize", files[idx]>>)
    /\ progressbar' = PrbAdd(1)
    /\ IF PrbRaises
       THEN pc' = "crashed" /\ exc' = "ZeroDivisionError" /\ UNCHANGED idx
       ELSE idx' = idx + 1 /\ UNCHANGED <<pc, exc>>
    /\ UNCHANGED <<static, walk, files_by_size, hashing, report>>

\* run, lines 178-189: the candidate sizes and the 'Finding duplicates' bar
StartHash ==
    /\ pc = "sizes" /\ idx > Len(files)
    /\ LET sizes == DupsSizes(files_by_size)
       IN  /\ dups_sizes' = sizes
           /\ progressbar' = IF progress
                             THEN NewBar("Finding duplicates",
                                         HashTotal(files_by_size, sizes))
                             ELSE progressbar
           /\ pc' = IF sizes = << >> THEN "group" ELSE "hash"
    /\ si' = 1 /\ fi' = 1 /\ sub' = "open"
    /\ UNCHANGED <<static, exc, walk, sizing, md5, fpos, hash_count_left,
                   potential_dup, report, stderr, io, faults>>


\* the hash loops move to the next file, or leave for the grouping
NextFile ==
    IF fi < Len(DictGet(files_by_size, CurSize))
    THEN fi' = fi + 1 /\ UNCHANGED <<si, pc>>
    ELSE /\ fi' = 1
         /\ si' = si + 1
         /\ pc' = IF si + 1 > Len(dups_sizes) THEN "group" ELSE pc

\* _hash, lines 142-144: open succeeds
HashOpen ==
    /\ pc = "hash" /\ sub = "open"
    /\ hash_count_left' = CurSize
    /\ md5' = Md5Init
    /\ fpos' = 0
    /\ sub' = "read"
    /\ io' = Append(io, <<"open", CurFile>>)
    /\ UNCHANGED <<static, pc, exc, walk, sizing, dups_sizes, si, fi,
                   potential_dup, report, progressbar, stderr, faults>>

\* HashFlush crediting nothing for the abandoned file
HashFlushNone(left) == 0

\* the bytes credited to the bar by the handler of line 199
HashFlush(left) == left

\* the handler of lines 197-199, shared by a failing open and a failing read
HashError ==
    /\ stderr' = Append(stderr, CurFile)
    /\ progressbar' = PrbAdd(HashFlush(hash_count_left'))
    /\ sub' = "open"
    /\ IF PrbRaises
       THEN pc' = "crashed" /\ exc' = "ZeroDivisionError" /\ UNCHANGED <<si, fi>>
       ELSE NextFile /\ UNCHANGED exc

\* open raises OSError
HashOpenFail ==
    /\ pc = "hash" /\ sub = "open"
    /\ CurFile \in flaky
    /\ faults < MaxFaults
    /\ faults' = faults + 1
    /\ hash_count_left' = CurSize
    /\ io' = Append(io, <<"open", CurFile>>)
    /\ HashError
    /\ UNCHANGED <<static, walk, sizing, dups_sizes, md5, fpos,
                   potential_dup, report>>

\* f.read(4096) returns a chunk: lines 146-149
HashReadChunk ==
    /\ pc = "hash" /\ sub = "read"
    /\ fpos < content[CurFile].size
    /\ io' = Append(io, <<"read", CurFile>>)
    /\ LET ln == ChunkLen(CurFile, fpos)
       IN  /\ progressbar' = PrbAdd(ln)
           /\ IF PrbRaises
              THEN /\ pc' = "crashed" /\ exc' = "ZeroDivisionError"
                   /\ UNCHANGED <<hash_count_left, md5, fpos>>
              ELSE /\ hash_count_left' = hash_count_left - ln
                   /\ md5' = Md5Update(md5, ln, ChunkLast(CurFile, fpos))
                   /\ fpos' = fpos + ln
                   /\ UNCHANGED <<pc, exc>>
    /\ UNCHANGED <<static, walk, sizing, dups_sizes, si, fi, sub,
                   potential_dup, report, stderr, faults>>

\* f.read(4096) returns b'': lines 151 and 196
HashReadEOF ==
    /\ pc = "hash" /\ sub = "read"
    /\ fpos = content[CurFile].size
    /\ io' = Append(io, <<"read", CurFile>>)
    /\ potential_dup' = DictAppend(potential_dup, <<HexDigest(md5), CurSize>>,
                                   CurFile)
    /\ sub' = "open"
    /\ NextFile
    /\ UNCHANGED <<static, exc, walk, sizing, dups_sizes, md5, fpos,
                   hash_count_left, report, progressbar, stderr, faults>>

\* f.read(4096) raises OSError
HashReadFail ==
    /\ pc = "hash" /\ sub = "read"
    /\ CurFile \in flaky
    /\ faults < MaxFaults
    /\ faults' = faults + 1
    /\ io' = Append(io, <<"read", CurFile>>)
    /\ UNCHANGED hash_count_left
    /\ HashError
    /\ UNCHANGED <<static, walk, sizing, dups_sizes, md5, fpos,
                   potential_dup, report>>

\* run, lines 201-207
Group ==
    /\ pc = "group"
    /\ dup' = SelectSeq(potential_dup, IsDup)
    /\ pc' = "output"
    /\ UNCHANGED <<static, exc, walk, sizing, hashing, oi, stdout, args,
                   progressbar, stderr, io, faults>>

Line(kind, hash, names) == [kind |-> kind, hash |-> hash, files |-> names]

\* run, lines 209-212 and 220. The arguments script and print_hash of run are
\* first read here, so their values are drawn here.
OutputStart ==
    /\ pc = "output"
    /\ \E script \in BOOLEAN, print_hash \in BOOLEAN :
         /\ args' = [script |-> script, print_hash |-> print_hash, given |-> TRUE]
         /\ oi' = IF script THEN 1 ELSE 0
    /\ stdout' = IF progressbar # NoBar
                 THEN Append(stdout, Line("newline", << >>, << >>))
                 ELSE stdout
    /\ pc' = "report"
    /\ UNCHANGED <<static, exc, walk, sizing, hashing, dup, progressbar,
                   stderr, io, faults>>

\* line 221
ReportHeader ==
    /\ pc = "report" /\ oi = 0 /\ dup # << >>
    /\ stdout' = Append(stdout, Line("Duplicate files:", << >>, << >>))
    /\ oi' = 1
    /\ UNCHANGED <<static, pc, exc, walk, sizing, hashing, dup, args,
                   progressbar, stderr, io, faults>>

\* line 227
ReportNone ==
    /\ pc = "report" /\ oi = 0 /\ dup = << >>
    /\ stdout' = Append(stdout, Line("No duplicate files", << >>, << >>))
    /\ pc' = "done"
    /\ UNCHANGED <<static, exc, walk, sizing, hashing, dup, oi, args,
                   progressbar, stderr, io, faults>>

\* one iteration of the loops of lines 214-217 and 222-225; line 216 joins
\* the digest with the integer size and raises TypeError
ReportGroup ==
    /\ pc = "report" /\ oi >= 1 /\ oi <= Len(dup)
    /\ IF args.script /\ args.print_hash
       THEN pc' = "crashed" /\ exc' = "TypeError" /\ UNCHANGED <<stdout, oi>>
       ELSE /\ stdout' = Append(stdout,
                  Line("group",
                       IF args.print_hash THEN dup[oi][1][1] ELSE << >>,
                       dup[oi][2]))
            /\ oi' = oi + 1
            /\ UNCHANGED <<pc, exc>>
    /\ UNCHANGED <<static, walk, sizing, hashing, dup, args, progressbar,
                   stderr, io, faults>>

\* run returns
ReportEnd ==
    /\ pc = "report" /\ oi >= 1 /\ oi > Len(dup)
    /\ pc' = "done"
    /\ UNCHANGED <<static, exc, walk, sizing, hashing, report, progressbar,
                   stderr, io, faults>>

\* main, lines 262-263: KeyboardInterrupt anywhere inside the try block
Interrupt ==
    /\ pc \notin {"done", "crashed", "interrupted"}
    /\ pc' = "interrupted"
    /\ stdout' = Append(stdout, Line("Interrupted", << >>, << >>))
    /\ UNCHANGED <<static, exc, walk, sizing, hashing, dup, oi, args,
                   progressbar, stderr, io, faults>>

Next ==
    \/ RunBegin
    \/ WalkFile \/ WalkDir \/ WalkDirFail \/ WalkOther
    \/ StartSizes \/ SizeOk \/ SizeFail
    \/ StartHash
    \/ HashOpen \/ HashOpenFail
    \/ HashReadChunk \/ HashReadEOF \/ HashReadFail
    \/ Group
    \/ OutputStart \/ ReportHeader \/ ReportNone \/ ReportGroup \/ ReportEnd
    \/ Interrupt

Spec == Init /\ [][Next]_vars


\* --------------------------------------------------------------- properties
\* dup holds the final result
ResultReady ==
    \/ pc \in {"output", "report", "done"}
    \/ pc = "crashed" /\ exc = "TypeError"

Discovered == Range(files)

SameGroup(f, g) ==
    \E i \in 1..Len(dup) : f \in Range(dup[i][2]) /\ g \in Range(dup[i][2])

Count(s, x) == Cardinality({i \in 1..Len(s) : s[i] = x})

IsPrefix(s, t) == Len(s) <= Len(t) /\ \A i \in 1..Len(s) : s[i] = t[i]

\* the members of the size classes holding two or more files, class by class
CandidateFiles ==
    Flatten(DictValues(SelectSeq(files_by_size, LAMBDA item : Len(item[2]) >= 2)))

\* the bytes of all candidate files, from the files' contents
ExpectedHashTotal ==
    SumSeq([i \in 1..Len(CandidateFiles) |-> content[CandidateFiles[i]].size])

\* the paths handed to open, in order
Opened ==
    LET calls == SelectSeq(io, LAMBDA c : c[1] = "open")
    IN  [i \in 1..Len(calls) |-> calls[i][2]]

Calls(op) == Cardinality({i \in 1..Len(io) : io[i][1] = op})

\* C1: with progress enabled, once the hash phase is over (also when it ends
\* in an exception) the increments given to the 'Finding duplicates' bar sum
\* to its declared total, the bytes of all candidate files.
C1_ProgressSumsToTotal ==
    ( /\ progress
      /\ progressbar.prefix = "Finding duplicates"
      /\ pc \in {"group", "output", "report", "done", "crashed"} )
    => /\ progressbar.pos = progressbar.max
       /\ progressbar.max = ExpectedHashTotal

\* a finished run with progress whose last _hash call failed in the middle
\* of the file, with bytes left to flush
C1_Witness ==
    /\ pc = "done" /\ progress
    /\ progressbar.max > 0
    /\ hash_count_left > 0 /\ hash_count_left < CHUNK
    /\ stderr # << >>

\* C2 as stated: in the final result any two discovered files of identical
\* content share a group, and files of different content never do.
C2_Original ==
    ResultReady =>
        \A f \in Discovered, g \in Discovered :
            f # g => (SameGroup(f, g) <=> content[f] = content[g])

\* C2 amended: in the final result any two discovered files of identical
\* content for which no getsize, open or read error was reported share a
\* group, and files of different content never share one.
C2_SameContentSameGroup ==
    ResultReady =>
        \A f \in Discovered, g \in Discovered :
            f # g =>
              /\ (content[f] = content[g] /\ f \notin Range(stderr)
                    /\ g \notin Range(stderr)) => SameGroup(f, g)
              /\ content[f] # content[g] => ~SameGroup(f, g)

\* a.txt and b.txt alike and grouped, c.bin of the same size but other bytes
C2_Witness ==
    /\ pc = "done"
    /\ {A, B, C} \subseteq Discovered
    /\ content[A] = content[B] /\ SameGroup(A, B)
    /\ content[C].size = content[A].size /\ content[C] # content[A]
    /\ ~SameGroup(A, C)

\* C3: once the result is final every group of dup has at least 2 members,
\* dup holds exactly the items of potential_dup with 2 or more members, and
\* an empty dup is reported as 'No duplicate files', not as an error.
C3_GroupsHaveTwo ==
    ResultReady =>
        /\ \A i \in 1..Len(dup) : Len(dup[i][2]) >= 2
        /\ \A i \in 1..Len(potential_dup) :
              Len(potential_dup[i][2]) >= 2 =>
                  \E j \in 1..Len(dup) : dup[j] = potential_dup[i]
        /\ \A j \in 1..Len(dup) :
              \E i \in 1..Len(potential_dup) : dup[j] = potential_dup[i]
        /\ (pc = "done" /\ dup = << >> /\ ~args.script) =>
              Last(stdout).kind = "No duplicate files"
        /\ (dup = << >>) => exc = "None"

\* a finished run that pruned a singleton group and kept a real one
C3_Witness ==
    /\ pc = "done"
    /\ dup # << >>
    /\ \E i \in 1..Len(potential_dup) : Len(potential_dup[i][2]) = 1

\* a finished run whose result is the empty mapping although files were hashed
C3_WitnessEmpty ==
    pc = "done" /\ dup = << >> /\ potential_dup # << >>

\* C4 as stated: no access or read error ends the run; an exception can end
\* it only after the output step has been reached.
C4_NoFatalError == pc = "crashed" => args.given

\* C5 as stated: an interrupted run has printed no part of the report.
C5_NoReportWhenInterrupted ==
    pc = "interrupted" =>
        \A i \in 1..Len(stdout) :
            stdout[i].kind \notin {"Duplicate files:", "group", "No duplicate files"}

\* C6: every file handed to open belongs to a size class of 2 or more files,
\* the files opened so far are the first candidates in class order, each
\* occurrence once, and a completed hash phase has opened all of them.
C6_OnlyCandidatesHashed ==
    /\ \A k \in 1..Len(io) :
          io[k][1] \in {"open", "read"} =>
              \E i \in 1..Len(files_by_size) :
                  /\ io[k][2] \in Range(files_by_size[i][2])
                  /\ Len(files_by_size[i][2]) >= 2
    /\ IsPrefix(Opened, CandidateFiles) \/ Opened = << >>
    /\ (pc = "group" \/ ResultReady) => Opened = CandidateFiles

\* a finished run with a class of one file, left alone, beside a class of
\* several files, all opened
C6_Witness ==
    /\ pc = "done"
    /\ \E i \in 1..Len(files_by_size) : Len(files_by_size[i][2]) = 1
    /\ \E i \in 1..Len(files_by_size) : Len(files_by_size[i][2]) >= 2
    /\ Opened # << >>

\* f is reached from the root r through readable directories only
ReachedFrom(r, f) ==
    /\ IsPrefix(r, f)
    /\ \A n \in Len(r)..(Len(f) - 1) :
          SubSeq(f, 1, n) \in Dirs \ unreadable

Visits(f) == Cardinality({i \in 1..Len(paths) : ReachedFrom(paths[i], f)})

Readable == {f \in Files : Visits(f) > 0 /\ CheckFileFilters(f)}

\* C7: after discovery files holds every filter-passing file or symlink once
\* per root that reaches it through readable directories and nothing else,
\* each failing listdir has printed exactly one error, and without further
\* failures the groups are those of the readable portion.
C7_UnreadableDirSkipped ==
    pc \in {"sizes", "hash", "group", "output", "report", "done", "crashed"} =>
        /\ \A f \in Files :
              Count(files, f) = IF CheckFileFilters(f) THEN Visits(f) ELSE 0
        /\ Discovered \subseteq Files
        /\ \A d \in Dirs :
              Count(stderr, d) = IF d \in unreadable THEN Visits(d) ELSE 0
        /\ (ResultReady /\ faults = 0) =>
              /\ \A f \in Readable, g \in Readable :
                    f # g => (SameGroup(f, g) <=> content[f] = content[g])
              /\ \A i \in 1..Len(dup) : Range(dup[i][2]) \subseteq Readable

\* d/s unreadable under the root d: its sibling b.txt, listed after it, was
\* still found and grouped with a.txt
C7_Witness ==
    /\ pc = "done"
    /\ D \in Range(paths) /\ S \in unreadable /\ D \notin unreadable
    /\ Count(stderr, S) = 1
    /\ B \in Discovered /\ C \notin Discovered
    /\ SameGroup(A, B)

Rank(p) ==
    CASE p = "init" -> 0
      [] p = "discover" -> 1
      [] p = "sizes" -> 2
      [] p = "hash" -> 3
      [] p = "group" -> 4
      [] p \in {"output", "report"} -> 5
      [] OTHER -> 6

\* C8: the phases follow one another in order and never return; listdir is
\* called only while discovering, getsize only after the walk has ended, open
\* and read only after every discovered file has been size-checked, and
\* the 'Finding duplicates' bar exists before the first open with a total
\* that never changes.
C8_PhaseOrder ==
    [][ /\ Rank(pc') >= Rank(pc)
        /\ io' # io =>
              /\ Last(io')[1] = "listdir" => pc = "discover"
              /\ Last(io')[1] = "getsize" =>
                    pc = "sizes" /\ todo = << >> /\ Calls("open") = 0
              /\ Last(io')[1] \in {"open", "read"} =>
                    /\ pc = "hash"
                    /\ Calls("getsize") = Len(files)
                    /\ progress => progressbar.prefix = "Finding duplicates"
        /\ progressbar.prefix = "Finding duplicates" =>
              /\ progressbar'.prefix = progressbar.prefix
              /\ progressbar'.max = progressbar.max
      ]_vars

\* a finished run with progress that listed, stat-ed, opened and read
C8_Witness ==
    /\ pc = "done" /\ progress
    /\ Calls("listdir") > 0 /\ Calls("getsize") > 1
    /\ Calls("open") > 1 /\ Calls("read") > 1
    /\ progressbar.max > 0

\* C9 as stated: no path appears twice in the final result.
C9_NoPathTwice ==
    ResultReady =>
        LET all == Flatten(DictValues(dup))
        IN  \A i \in 1..Len(all), j \in 1..Len(all) : all[i] = all[j] => i = j

\* C10 as stated: Progressbar.add never runs on a bar whose _max is 0, so
\* no ZeroDivisionError is raised.
C10_NoAddOnZeroBar ==
    ~(progress /\ progressbar.max = 0 /\ exc = "ZeroDivisionError")

====
